---- MODULE Spec2Model ----
(***************************************************************************)
(* Workflow execution model of the ChIP-seq and Quant-seq pipelines        *)
(* (src/pipelines/chipseq.py, src/pipelines/quantseq.py).                  *)
(*                                                                         *)
(* process() is straight-line code over an immutable (Sample, RunConfig):  *)
(* it is modelled as the sequence of statements it executes (ProcessChIP,  *)
(* ProcessQuant), one record per pipe.call_lock / pipe.clean_add /         *)
(* return / raise / pipe.stop_pipeline, in source order.  The Runner       *)
(* (pypiper) and the toolkit are external: the Runner's behaviour is       *)
(* modelled from its contract (execute / registerForCleanup / finalize).   *)
(***************************************************************************)
EXTENDS Naturals, Sequences, FiniteSets, TLC

VARIABLES
    cfg,          \* cfg[s]: the unpickled (prj, sample, args) of run s
    program,      \* program[s]: the statements process() executes for cfg[s]
    pc,           \* pc[s]: index of the next statement of process()
    status,       \* pc of main(): "process", "failed", "notimpl", "returned", "rm_done", "exit"
    unmappedBam,  \* sample.unmappedBam: the list of replicate paths, or one path
    handed,       \* stages handed to pipe.call_lock in this run, in order
    executed,     \* ids of the stages whose command was started in this run
    running,      \* the stage whose command is executing, or NoStage
    failed,       \* ids of the stages whose command failed in this run
    cleanList,    \* paths registered with clean_add(conditional=True)
    finalized,    \* number of stop_pipeline() calls of this run
    completed,    \* ids of the stages that completed in the runs this one resumes
    exitCode,     \* "none", 0 or 1
    pickle,       \* the serialized run input is on disk
    files,        \* paths that exist on disk
    deleted,      \* paths removed by the Runner's cleanup
    locks         \* lock keys currently held

vars == <<cfg, program, pc, status, unmappedBam, handed, executed, running, failed,
          cleanList, finalized, completed, exitCode, pickle, files,
          deleted, locks>>

-----------------------------------------------------------------------------
(* Bounds *)

NumSamples == 2

-----------------------------------------------------------------------------
(* Paths and statements *)

None == <<"None", "None">>

\* a path of the sample: sample.<slot>
P(c, slot) == <<c.name, slot>>

\* cmd = tk.<tool>(inputs, outputs, opts); pipe.call_lock(cmd, target, lock_name, nofail)
\* opts: the keyword arguments of the toolkit call that are not paths, as
\* <<keyword, value as written in the command>>; cmd: the command text, for the
\* commands that process.py builds itself
CallWith(id, tool, line, inputs, outputs, target, lock, nofail, opts, cmd) ==
    [op |-> "call_lock", id |-> id, tool |-> tool, line |-> line,
     inputs |-> inputs, outputs |-> outputs, target |-> target,
     lock |-> lock, nofail |-> nofail, opts |-> opts, cmd |-> cmd]

Call(id, tool, line, inputs, outputs, target, lock, nofail) ==
    CallWith(id, tool, line, inputs, outputs, target, lock, nofail, {}, << >>)

Stmt(op, line, path) ==
    [op |-> op, id |-> op, tool |-> op, line |-> line,
     inputs |-> << >>, outputs |-> {}, target |-> path,
     lock |-> None, nofail |-> FALSE, opts |-> {}, cmd |-> << >>]

CleanAdd(line, path) == Stmt("clean_add", line, path)

NoStage == Stmt("none", 0, None)

-----------------------------------------------------------------------------
(* chipseq.py process() *)

\* the merge without the assignment of line 84
ChipMergeNoAssign(c) ==
    IF c.isList
    THEN << Call("merge", "mergeBams", 83, <<P(c, "unmappedBam")>>, {P(c, "unmapped")},
                 P(c, "unmapped"), None, FALSE) >>
    ELSE << >>

ChipMerge(c) ==
    IF c.isList
    THEN << Call("merge", "mergeBams", 83, <<P(c, "unmappedBam")>>, {P(c, "unmapped")},
                 P(c, "unmapped"), None, FALSE),
            Stmt("set_unmappedBam", 84, P(c, "unmapped")) >>
    ELSE << >>

ChipFastqc(c) ==
    << Call("fastqc", "fastqc", 93, <<P(c, "unmappedBam")>>, {P(c, "fastqc.zip")},
            P(c, "fastqc.zip"), None, FALSE) >>

\* a format conversion that registers sample.fastq for cleanup whatever sample.paired is
ChipBam2FastqRegistersSingle(c) ==
    << Call("bam2fastq", "bam2fastq", 103, <<P(c, "unmappedBam")>>,
            IF c.paired THEN {P(c, "fastq1"), P(c, "fastq2"), P(c, "fastqUnpaired")}
                        ELSE {P(c, "fastq")},
            IF c.paired THEN P(c, "fastq1") ELSE P(c, "fastq"), None, FALSE),
       CleanAdd(105, P(c, "fastq")) >>
    \o (IF c.paired THEN << CleanAdd(107, P(c, "fastq1")), CleanAdd(108, P(c, "fastq2")),
                            CleanAdd(109, P(c, "fastqUnpaired")) >>
                    ELSE << >>)

ChipBam2Fastq(c) ==
    << Call("bam2fastq", "bam2fastq", 103, <<P(c, "unmappedBam")>>,
            IF c.paired THEN {P(c, "fastq1"), P(c, "fastq2"), P(c, "fastqUnpaired")}
                        ELSE {P(c, "fastq")},
            IF c.paired THEN P(c, "fastq1") ELSE P(c, "fastq"), None, FALSE) >>
    \o (IF ~c.paired THEN << CleanAdd(105, P(c, "fastq")) >> ELSE << >>)
    \o (IF c.paired THEN << CleanAdd(107, P(c, "fastq1")), CleanAdd(108, P(c, "fastq2")),
                            CleanAdd(109, P(c, "fastqUnpaired")) >>
                    ELSE << >>)

\* a trim stage that takes the trimmomatic form whatever args.trimmer is
ChipTrimIgnoresTrimmer(c) ==
    << Call("trim", "trimmomatic", 125,
            IF c.paired THEN <<P(c, "fastq1"), P(c, "fastq2")>> ELSE <<P(c, "fastq")>>,
            IF c.paired THEN {P(c, "trimmed1"), P(c, "trimmed1Unpaired"),
                              P(c, "trimmed2"), P(c, "trimmed2Unpaired")}
                        ELSE {P(c, "trimmed")},
            IF c.paired THEN P(c, "trimmed1") ELSE P(c, "trimmed"), None, FALSE) >>
    \o (IF ~c.paired
        THEN << CleanAdd(127, P(c, "trimmed")) >>
        ELSE << CleanAdd(129, P(c, "trimmed1")), CleanAdd(130, P(c, "trimmed1Unpaired")),
                CleanAdd(131, P(c, "trimmed2")), CleanAdd(132, P(c, "trimmed2Unpaired")) >>)

ChipTrim(c) ==
    IF c.trimmer = "trimmomatic"
    THEN << Call("trim", "trimmomatic", 125,
                 IF c.paired THEN <<P(c, "fastq1"), P(c, "fastq2")>> ELSE <<P(c, "fastq")>>,
                 IF c.paired THEN {P(c, "trimmed1"), P(c, "trimmed1Unpaired"),
                                   P(c, "trimmed2"), P(c, "trimmed2Unpaired")}
                             ELSE {P(c, "trimmed")},
                 IF c.paired THEN P(c, "trimmed1") ELSE P(c, "trimmed"), None, FALSE) >>
         \o (IF ~c.paired
             THEN << CleanAdd(127, P(c, "trimmed")) >>
             ELSE << CleanAdd(129, P(c, "trimmed1")), CleanAdd(130, P(c, "trimmed1Unpaired")),
                     CleanAdd(131, P(c, "trimmed2")), CleanAdd(132, P(c, "trimmed2Unpaired")) >>)
    ELSE IF c.trimmer = "skewer"
    THEN << Call("trim", "skewer", 145,
                 IF c.paired THEN <<P(c, "fastq1"), P(c, "fastq2")>> ELSE <<P(c, "fastq")>>,
                 IF c.paired THEN {P(c, "trimmed1"), P(c, "trimmed2")}
                             ELSE {P(c, "trimmed")},
                 IF c.paired THEN P(c, "trimmed1") ELSE P(c, "trimmed"), None, FALSE) >>
         \o (IF ~c.paired
             THEN << CleanAdd(147, P(c, "trimmed")) >>
             ELSE << CleanAdd(149, P(c, "trimmed1")), CleanAdd(150, P(c, "trimmed2")) >>)
    ELSE << >>

ChipMap(c) ==
    << Call("map", "bowtie2Map", 164,
            IF c.paired THEN <<P(c, "trimmed1"), P(c, "trimmed2")>> ELSE <<P(c, "trimmed")>>,
            {P(c, "mapped")}, P(c, "mapped"), None, FALSE),
       CleanAdd(165, P(c, "mapped")) >>

ChipFilter(c) ==
    << Call("filter", "filterReads", 177, <<P(c, "mapped")>>, {P(c, "filtered")},
            P(c, "filtered"), None, FALSE) >>

ChipShift(c) ==
    IF c.tagmented
    THEN << Call("shift", "shiftReads", 187, <<P(c, "filtered")>>, {P(c, "filteredshifted")},
                 P(c, "filteredshifted"), None, FALSE) >>
    ELSE << >>

\* an index stage that indexes the shifted file whatever sample.tagmented is
ChipIndexAlwaysShifted(c) ==
    << Call("index_mapped", "indexBam", 192, <<P(c, "mapped")>>, {P(c, "mapped.bai")},
            P(c, "mapped.bai"), None, FALSE),
       Call("index_filtered", "indexBam", 194, <<P(c, "filtered")>>, {P(c, "filtered.bai")},
            P(c, "filtered.bai"), None, FALSE),
       Call("index_shifted", "indexBam", 197, <<P(c, "filteredshifted")>>,
            {P(c, "filteredshifted.bai")}, P(c, "filteredshifted.bai"), None, FALSE) >>

ChipIndex(c) ==
    << Call("index_mapped", "indexBam", 192, <<P(c, "mapped")>>, {P(c, "mapped.bai")},
            P(c, "mapped.bai"), None, FALSE),
       Call("index_filtered", "indexBam", 194, <<P(c, "filtered")>>, {P(c, "filtered.bai")},
            P(c, "filtered.bai"), None, FALSE) >>
    \o (IF c.tagmented
        THEN << Call("index_shifted", "indexBam", 197, <<P(c, "filteredshifted")>>,
                     {P(c, "filteredshifted.bai")}, P(c, "filteredshifted.bai"), None, FALSE) >>
        ELSE << >>)

\* os.path.join(prj.dirs.html, "trackHub_{0}.txt".format(sample.genome))
TrackHub(c) == <<"trackHub", c.genome>>

\* sample.name + "addToTrackHub"
TrackHubLock(c) == <<c.name, "addToTrackHub">>

ChipTracks(c) ==
    << Call("bigwig", "bamToBigWig", 210, <<P(c, "filtered")>>, {P(c, "bigwig")},
            P(c, "bigwig"), None, FALSE),
       Call("trackhub", "addTrackToHub", 217, << >>, {TrackHub(c)},
            None, TrackHubLock(c), FALSE),
       Stmt("direct", 218, <<"ucsc_tracks", c.genome>>) >>

ChipCoverage(c) ==
    << Call("coverage", "genomeWideCoverage", 231, <<P(c, "filtered")>>, {P(c, "coverage")},
            P(c, "coverage"), None, FALSE) >>

ChipQC(c) ==
    << Call("qc", "peakTools", 241, <<P(c, "filtered")>>, {P(c, "qc"), P(c, "qcPlot")},
            P(c, "qcPlot"), None, TRUE) >>

\* process() without the early return
ChipEarlyExitMissing(c) == << >>

ChipEarlyExit(c) ==
    IF ~c.hasCtrl THEN << Stmt("return", 246, None) >> ELSE << >>

\* the zinba branch as a branch that does nothing
ChipPeaksZinbaSilent(c) ==
    IF c.peak_caller = "macs2"
    THEN << Stmt("direct", 252, P(c, "dirs.peaks")),
            Call("peaks", "macs2CallPeaks", 264, <<P(c, "filtered"), P(c, "ctrl.filtered")>>,
                 {P(c, "peaks")}, P(c, "peaks"), None, FALSE),
            Call("model_plot", "macs2PlotModel", 271, <<P(c, "dirs.peaks")>>,
                 {P(c, "model.pdf")}, P(c, "model.pdf"), None, FALSE) >>
    ELSE IF c.peak_caller = "spp"
    THEN << Call("peaks", "sppCallPeaks", 285, <<P(c, "filtered"), P(c, "ctrl.filtered")>>,
                 {P(c, "peaks")}, P(c, "peaks"), None, FALSE) >>
    ELSE << >>

\* an spp branch that calls point-source peaks whatever sample.broad is
ChipPeaksSppIgnoresBroad(c) ==
    IF c.peak_caller = "macs2"
    THEN << Stmt("direct", 252, P(c, "dirs.peaks")),
            CallWith("peaks", "macs2CallPeaks", 264, <<P(c, "filtered"), P(c, "ctrl.filtered")>>,
                     {P(c, "peaks")}, P(c, "peaks"), None, FALSE,
                     {<<"broad", IF c.broad THEN "True" ELSE "False">>}, << >>),
            Call("model_plot", "macs2PlotModel", 271, <<P(c, "dirs.peaks")>>,
                 {P(c, "model.pdf")}, P(c, "model.pdf"), None, FALSE) >>
    ELSE IF c.peak_caller = "spp"
    THEN << CallWith("peaks", "sppCallPeaks", 285, <<P(c, "filtered"), P(c, "ctrl.filtered")>>,
                     {P(c, "peaks")}, P(c, "peaks"), None, FALSE,
                     {<<"broad", "False">>}, << >>) >>
    ELSE IF c.peak_caller = "zinba"
    THEN << Stmt("raise", 287, None) >>
    ELSE << >>

ChipPeaks(c) ==
    IF c.peak_caller = "macs2"
    THEN << Stmt("direct", 252, P(c, "dirs.peaks")),
            CallWith("peaks", "macs2CallPeaks", 264, <<P(c, "filtered"), P(c, "ctrl.filtered")>>,
                     {P(c, "peaks")}, P(c, "peaks"), None, FALSE,
                     {<<"broad", IF c.broad THEN "True" ELSE "False">>}, << >>),
            Call("model_plot", "macs2PlotModel", 271, <<P(c, "dirs.peaks")>>,
                 {P(c, "model.pdf")}, P(c, "model.pdf"), None, FALSE) >>
    ELSE IF c.peak_caller = "spp"
    THEN << CallWith("peaks", "sppCallPeaks", 285, <<P(c, "filtered"), P(c, "ctrl.filtered")>>,
                     {P(c, "peaks")}, P(c, "peaks"), None, FALSE,
                     {<<"broad", IF c.broad THEN "True" ELSE "False">>}, << >>) >>
    ELSE IF c.peak_caller = "zinba"
    THEN << Stmt("raise", 287, None) >>
    ELSE << >>

\* a co-binder search with the window and the motif count of the self-motif search
ChipMotifsCobindersAsSelf(c) ==
    IF ~c.histone
    THEN << CallWith("motifs", "homerFindMotifs", 319, <<P(c, "peaks")>>,
                     {P(c, "motif1.motif")}, P(c, "motif1.motif"), None, FALSE,
                     {<<"size", "50">>, <<"length", "8,10,12,14,16">>, <<"n_motifs", "8">>},
                     << >>),
            CallWith("motifs_cobinders", "homerFindMotifs", 329, <<P(c, "peaks")>>,
                     {P(c, "cobinders.motif1.motif")}, P(c, "cobinders.motif1.motif"),
                     None, FALSE,
                     {<<"size", "50">>, <<"length", "8,10,12,14,16">>, <<"n_motifs", "8">>},
                     << >>) >>
    ELSE << CallWith("motifs", "homerFindMotifs", 340, <<P(c, "peaks")>>,
                     {P(c, "motif1.motif")}, P(c, "motif1.motif"), None, FALSE,
                     {<<"size", "1000">>, <<"length", "8,10,12,14,16">>, <<"n_motifs", "20">>},
                     << >>) >>

ChipMotifs(c) ==
    IF ~c.histone
    THEN << CallWith("motifs", "homerFindMotifs", 319, <<P(c, "peaks")>>,
                     {P(c, "motif1.motif")}, P(c, "motif1.motif"), None, FALSE,
                     {<<"size", "50">>, <<"length", "8,10,12,14,16">>, <<"n_motifs", "8">>},
                     << >>),
            CallWith("motifs_cobinders", "homerFindMotifs", 329, <<P(c, "peaks")>>,
                     {P(c, "cobinders.motif1.motif")}, P(c, "cobinders.motif1.motif"),
                     None, FALSE,
                     {<<"size", "200">>, <<"length", "8,10,12,14,16">>, <<"n_motifs", "12">>},
                     << >>) >>
    ELSE << CallWith("motifs", "homerFindMotifs", 340, <<P(c, "peaks")>>,
                     {P(c, "motif1.motif")}, P(c, "motif1.motif"), None, FALSE,
                     {<<"size", "1000">>, <<"length", "8,10,12,14,16">>, <<"n_motifs", "20">>},
                     << >>) >>

\* a centering on the motif of the co-binder search
ChipCenterOnCobinders(c) ==
    << Call("center", "centerPeaksOnMotifs", 355,
            <<P(c, "peaks"), P(c, "cobinders.motif1.motif")>>,
            {P(c, "peaksMotifCentered")}, P(c, "peaksMotifCentered"), None, FALSE) >>

ChipCenter(c) ==
    << Call("center", "centerPeaksOnMotifs", 355, <<P(c, "peaks"), P(c, "motif1.motif")>>,
            {P(c, "peaksMotifCentered")}, P(c, "peaksMotifCentered"), None, FALSE) >>

ChipAnnotate(c) ==
    << Call("annotate", "AnnotatePeaks", 369, <<P(c, "peaks"), P(c, "motif1.motif")>>,
            {P(c, "peaksMotifAnnotated")}, P(c, "peaksMotifAnnotated"), None, FALSE) >>

ChipPlots(c) ==
    << Call("plot_peaks", "peakAnalysis", 384, <<P(c, "filtered"), P(c, "peaksMotifCentered")>>,
            {P(c, "plots.peaks")}, None, None, TRUE),
       Call("plot_tss", "tssAnalysis", 399, <<P(c, "filtered")>>,
            {P(c, "plots.tss")}, None, None, TRUE) >>

\* FRiP handed with nofail=True
ChipFRiPTolerant(c) ==
    << Call("frip", "calculateFRiP", 408, <<P(c, "filtered"), P(c, "peaks")>>, {P(c, "frip")},
            P(c, "frip"), None, TRUE) >>

\* a FRiP stage that also reads the output of the signal/noise QC
ChipFRiPReadsQC(c) ==
    << Call("frip", "calculateFRiP", 408, <<P(c, "filtered"), P(c, "peaks"), P(c, "qc")>>,
            {P(c, "frip")}, P(c, "frip"), None, FALSE) >>

ChipFRiP(c) ==
    << Call("frip", "calculateFRiP", 408, <<P(c, "filtered"), P(c, "peaks")>>, {P(c, "frip")},
            P(c, "frip"), None, FALSE) >>

ChipStop(c) == << Stmt("stop_pipeline", 410, None) >>

\* stop_pipeline() called before the FRiP stage
ProcessChIPStopsEarly(c) ==
    ChipMerge(c) \o ChipFastqc(c) \o ChipBam2Fastq(c) \o ChipTrim(c) \o ChipMap(c)
    \o ChipFilter(c) \o ChipShift(c) \o ChipIndex(c) \o ChipTracks(c) \o ChipCoverage(c)
    \o ChipQC(c) \o ChipEarlyExit(c) \o ChipPeaks(c) \o ChipMotifs(c) \o ChipCenter(c)
    \o ChipAnnotate(c) \o ChipPlots(c) \o ChipStop(c) \o ChipFRiP(c)

ProcessChIP(c) ==
    ChipMerge(c) \o ChipFastqc(c) \o ChipBam2Fastq(c) \o ChipTrim(c) \o ChipMap(c)
    \o ChipFilter(c) \o ChipShift(c) \o ChipIndex(c) \o ChipTracks(c) \o ChipCoverage(c)
    \o ChipQC(c) \o ChipEarlyExit(c) \o ChipPeaks(c) \o ChipMotifs(c) \o ChipCenter(c)
    \o ChipAnnotate(c) \o ChipPlots(c) \o ChipFRiP(c) \o ChipStop(c)

-----------------------------------------------------------------------------
(* quantseq.py process() *)

QuantMerge(c) ==
    IF c.isList
    THEN << Call("merge", "mergeBams", 80, <<P(c, "unmappedBam")>>, {P(c, "unmapped")},
                 P(c, "unmapped"), None, FALSE),
            Stmt("set_unmappedBam", 81, P(c, "unmapped")) >>
    ELSE << >>

QuantFastqc(c) ==
    << Call("fastqc", "fastqc", 90, <<P(c, "unmappedBam")>>, {P(c, "fastqc.zip")},
            P(c, "fastqc.zip"), None, FALSE) >>

QuantBam2Fastq(c) ==
    << Call("bam2fastq", "bam2fastq", 100, <<P(c, "unmappedBam")>>,
            IF c.paired THEN {P(c, "fastq1"), P(c, "fastq2"), P(c, "fastqUnpaired")}
                        ELSE {P(c, "fastq")},
            IF c.paired THEN P(c, "fastq1") ELSE P(c, "fastq"), None, FALSE) >>
    \o (IF ~c.paired THEN << CleanAdd(102, P(c, "fastq")) >> ELSE << >>)
    \o (IF c.paired THEN << CleanAdd(104, P(c, "fastq1")), CleanAdd(105, P(c, "fastq2")),
                            CleanAdd(106, P(c, "fastqUnpaired")) >>
                    ELSE << >>)

\* a literal piece of a command text
Lit(str) == <<"lit", str>>

\* quantseq.py trimmomatic(): the command text, piece by piece
trimmomatic(inputFastq1, outputFastq1, cpus, adapters, log, inputFastq2, outputFastq1unpaired, outputFastq2, outputFastq2unpaired) ==
    LET PE == inputFastq2 # None
        pe == IF PE THEN "PE" ELSE "SE"
    IN  << Lit("java -Xmx4g -jar trimmomatic-0.32.jar"),
           Lit(pe), Lit("-threads"), cpus, Lit("-trimlog"), log, inputFastq1 >>
        \o (IF PE THEN << inputFastq2 >> ELSE << >>)
        \o << outputFastq1 >>
        \o (IF PE THEN << outputFastq1unpaired, outputFastq2, outputFastq2unpaired >>
                  ELSE << >>)
        \o << Lit("ILLUMINACLIP:"), adapters, Lit(":1:40:15:8:true"),
              Lit("HEADCROP:12"), Lit("TRAILING:3"), Lit("SLIDINGWINDOW:4:10"),
              Lit("MINLEN:36") >>

\* a trim stage that branches on args.trimmer as the ChIP-seq one does
QuantTrimHonoursTrimmer(c) ==
    IF c.trimmer = "skewer"
    THEN << Call("trim", "skewer", 122,
                 IF c.paired THEN <<P(c, "fastq1"), P(c, "fastq2")>> ELSE <<P(c, "fastq")>>,
                 IF c.paired THEN {P(c, "trimmed1"), P(c, "trimmed2")}
                             ELSE {P(c, "trimmed")},
                 IF c.paired THEN P(c, "trimmed1") ELSE P(c, "trimmed"), None, FALSE) >>
         \o (IF ~c.paired
             THEN << CleanAdd(124, P(c, "trimmed")) >>
             ELSE << CleanAdd(126, P(c, "trimmed1")), CleanAdd(128, P(c, "trimmed2")) >>)
    ELSE << CallWith("trim", "trimmomatic", 122,
                 IF c.paired THEN <<P(c, "fastq1"), P(c, "fastq2")>> ELSE <<P(c, "fastq")>>,
                 IF c.paired THEN {P(c, "trimmed1"), P(c, "trimmed1Unpaired"),
                                   P(c, "trimmed2"), P(c, "trimmed2Unpaired")}
                             ELSE {P(c, "trimmed")},
                 IF c.paired THEN P(c, "trimmed1") ELSE P(c, "trimmed"), None, FALSE, {},
                 trimmomatic(IF c.paired THEN P(c, "fastq1") ELSE P(c, "fastq"),
                             IF c.paired THEN P(c, "trimmed1") ELSE P(c, "trimmed"),
                             <<"args", "cpus">>, <<"prj.config", "adapters">>, P(c, "trimlog"),
                             IF c.paired THEN P(c, "fastq2") ELSE None,
                             IF c.paired THEN P(c, "trimmed1Unpaired") ELSE None,
                             IF c.paired THEN P(c, "trimmed2") ELSE None,
                             IF c.paired THEN P(c, "trimmed2Unpaired") ELSE None)) >>
         \o (IF ~c.paired
             THEN << CleanAdd(124, P(c, "trimmed")) >>
             ELSE << CleanAdd(126, P(c, "trimmed1")), CleanAdd(127, P(c, "trimmed1Unpaired")),
                     CleanAdd(128, P(c, "trimmed2")), CleanAdd(129, P(c, "trimmed2Unpaired")) >>)

\* the trim stage does not read args.trimmer
QuantTrim(c) ==
    << CallWith("trim", "trimmomatic", 122,
            IF c.paired THEN <<P(c, "fastq1"), P(c, "fastq2")>> ELSE <<P(c, "fastq")>>,
            IF c.paired THEN {P(c, "trimmed1"), P(c, "trimmed1Unpaired"),
                              P(c, "trimmed2"), P(c, "trimmed2Unpaired")}
                        ELSE {P(c, "trimmed")},
            IF c.paired THEN P(c, "trimmed1") ELSE P(c, "trimmed"), None, FALSE, {},
            trimmomatic(IF c.paired THEN P(c, "fastq1") ELSE P(c, "fastq"),
                        IF c.paired THEN P(c, "trimmed1") ELSE P(c, "trimmed"),
                        <<"args", "cpus">>, <<"prj.config", "adapters">>, P(c, "trimlog"),
                        IF c.paired THEN P(c, "fastq2") ELSE None,
                        IF c.paired THEN P(c, "trimmed1Unpaired") ELSE None,
                        IF c.paired THEN P(c, "trimmed2") ELSE None,
                        IF c.paired THEN P(c, "trimmed2Unpaired") ELSE None)) >>
    \o (IF ~c.paired
        THEN << CleanAdd(124, P(c, "trimmed")) >>
        ELSE << CleanAdd(126, P(c, "trimmed1")), CleanAdd(127, P(c, "trimmed1Unpaired")),
                CleanAdd(128, P(c, "trimmed2")), CleanAdd(129, P(c, "trimmed2Unpaired")) >>)

QuantMap(c) ==
    << Call("map", "topHatMap", 140,
            IF c.paired THEN <<P(c, "trimmed1")>> ELSE <<P(c, "trimmed")>>,
            {P(c, "mapped")}, P(c, "mapped"), None, FALSE),
       CleanAdd(141, P(c, "mapped")),
       Call("ercc_map", "bowtie2Map", 154,
            IF c.paired THEN <<P(c, "trimmed1"), P(c, "trimmed1")>> ELSE <<P(c, "trimmed")>>,
            {P(c, "erccMapped")}, P(c, "erccMapped"), None, FALSE),
       CleanAdd(155, P(c, "erccMapped")) >>

QuantFilter(c) ==
    << Call("filter", "filterReads", 167, <<P(c, "mapped")>>, {P(c, "filtered")},
            P(c, "filtered"), None, FALSE),
       Call("ercc_filter", "filterReads", 178, <<P(c, "erccMapped")>>, {P(c, "erccFiltered")},
            P(c, "erccFiltered"), None, FALSE) >>

\* lock_name is the string literal "sample.filtered", not the path
QuantSortIndex(c) ==
    << Call("sort_index", "sortIndexBam", 186, <<P(c, "filtered")>>, {P(c, "filtered")},
            None, <<"literal", "sample.filtered">>, FALSE),
       Call("ercc_sort_index", "sortIndexBam", 193, <<P(c, "erccFiltered")>>,
            {P(c, "erccFiltered")}, None, <<"literal", "sample.erccFiltered">>, FALSE) >>

\* the primary quantification handed with nofail=True
QuantCountPrimaryTolerant(c) ==
    << Call("quant", "htSeqCount", 203, <<P(c, "filtered")>>, {P(c, "quant")},
            P(c, "quant"), None, TRUE),
       Call("ercc_quant", "htSeqCount", 211, <<P(c, "erccFiltered")>>, {P(c, "erccQuant")},
            P(c, "erccQuant"), None, TRUE) >>

\* the ERCC quantification handed without nofail
QuantCountErccRequired(c) ==
    << Call("quant", "htSeqCount", 203, <<P(c, "filtered")>>, {P(c, "quant")},
            P(c, "quant"), None, FALSE),
       Call("ercc_quant", "htSeqCount", 211, <<P(c, "erccFiltered")>>, {P(c, "erccQuant")},
            P(c, "erccQuant"), None, FALSE) >>

QuantCount(c) ==
    << Call("quant", "htSeqCount", 203, <<P(c, "filtered")>>, {P(c, "quant")},
            P(c, "quant"), None, FALSE),
       Call("ercc_quant", "htSeqCount", 211, <<P(c, "erccFiltered")>>, {P(c, "erccQuant")},
            P(c, "erccQuant"), None, TRUE) >>

QuantKallisto(c) ==
    << Call("kallisto", "kallisto", 223,
            IF c.paired THEN <<P(c, "trimmed1"), P(c, "trimmed2")>> ELSE <<P(c, "trimmed")>>,
            {P(c, "kallistoQuant"), P(c, "pseudomapped")}, P(c, "kallistoQuant"),
            None, TRUE) >>

QuantStop(c) == << Stmt("stop_pipeline", 225, None) >>

\* the count-based quantification handed before the sort+index
ProcessQuantCountsBeforeSort(c) ==
    QuantMerge(c) \o QuantFastqc(c) \o QuantBam2Fastq(c) \o QuantTrim(c) \o QuantMap(c)
    \o QuantFilter(c) \o QuantCount(c) \o QuantSortIndex(c) \o QuantKallisto(c)
    \o QuantStop(c)

ProcessQuant(c) ==
    QuantMerge(c) \o QuantFastqc(c) \o QuantBam2Fastq(c) \o QuantTrim(c) \o QuantMap(c)
    \o QuantFilter(c) \o QuantSortIndex(c) \o QuantCount(c) \o QuantKallisto(c)
    \o QuantStop(c)

Process(c) == IF c.workflow = "chipseq" THEN ProcessChIP(c) ELSE ProcessQuant(c)

-----------------------------------------------------------------------------
(* Run inputs *)

Names == <<"s1", "s2", "s3">>

Genomes == {"hg19", "mm10"}

Trimmers == {"trimmomatic", "skewer"}

PeakCallers == {"macs2", "spp", "zinba"}

\* (prj, sample, args) of a ChIP-seq run
ChipConfigs(name, genomes) ==
    [workflow : {"chipseq"}, name : {name}, genome : genomes,
     paired : BOOLEAN, tagmented : BOOLEAN, histone : BOOLEAN, broad : BOOLEAN,
     hasCtrl : BOOLEAN, isList : BOOLEAN, trimmer : Trimmers, peak_caller : PeakCallers,
     dry_run : BOOLEAN]

\* (prj, sample, args) of a Quant-seq run: the flags process() never reads are fixed
QuantConfigs(name, genomes) ==
    [workflow : {"quantseq"}, name : {name}, genome : genomes,
     paired : BOOLEAN, tagmented : {FALSE}, histone : {FALSE}, broad : {FALSE},
     hasCtrl : {FALSE},
     isList : BOOLEAN, trimmer : Trimmers, peak_caller : {"macs2"},
     dry_run : BOOLEAN]

\* sample.unmappedBam as unpickled: a list of paths, or one path
InitialUnmappedBam(c) == IF c.isList THEN P(c, "rawBamList") ELSE P(c, "rawBam")

-----------------------------------------------------------------------------
(* main(): exceptions *)

\* a hypothetical main() that catches every exception of process() and goes on
OnExceptionSwallowed(exc) == "returned"

\* process() has no handler; main() catches KeyboardInterrupt only, so an
\* exception of the Runner or of process() ends the interpreter
OnException(exc) ==
    IF exc = "KeyboardInterrupt" THEN "interrupted"
    ELSE IF exc = "NotImplementedError" THEN "notimpl"
    ELSE "failed"

-----------------------------------------------------------------------------
(* State *)

Samples == DOMAIN cfg

Program(s) == program[s]

InProcess(s) ==
    /\ status[s] = "process"
    /\ running[s] = NoStage
    /\ pc[s] <= Len(Program(s))

Cur(s) == Program(s)[pc[s]]

\* sample.unmappedBam is read when the toolkit call is made
Resolve(s, st) ==
    [st EXCEPT !.inputs = [i \in DOMAIN st.inputs |->
        IF st.inputs[i] = P(cfg[s], "unmappedBam") THEN unmappedBam[s] ELSE st.inputs[i]]]

Ids(seq) == {seq[i].id : i \in DOMAIN seq}

InitOver(S, configs(_)) ==
    /\ cfg \in {f \in [S -> UNION {configs(Names[s]) : s \in S}] :
                   \A s \in S : f[s].name = Names[s]}
    /\ program = [s \in S |-> Process(cfg[s])]
    /\ pc = [s \in S |-> 1]
    /\ status = [s \in S |-> "process"]
    /\ unmappedBam = [s \in S |-> InitialUnmappedBam(cfg[s])]
    /\ handed = [s \in S |-> << >>]
    /\ executed = [s \in S |-> << >>]
    /\ running = [s \in S |-> NoStage]
    /\ failed = [s \in S |-> {}]
    /\ cleanList = [s \in S |-> {}]
    /\ finalized = [s \in S |-> 0]
    /\ completed = [s \in S |-> {}]
    /\ exitCode = [s \in S |-> "none"]
    /\ pickle = [s \in S |-> TRUE]
    /\ files = {InitialUnmappedBam(cfg[s]) : s \in S}
                  \cup {P(cfg[s], "ctrl.filtered") : s \in {x \in S : cfg[x].hasCtrl}}
    /\ deleted = {}
    /\ locks = {}

-----------------------------------------------------------------------------
(* The Runner: call_lock, clean_add, stop_pipeline *)

TargetSatisfied(st) == st.target # None /\ st.target \in files

\* the lock is named after lock_name, and after the target when none is given
LockKey(st) == IF st.lock # None THEN st.lock ELSE st.target

Held(st) == LockKey(st) # None /\ LockKey(st) \in locks

\* call_lock on a stage whose target exists: the command is not run
CallLockSkip(s) ==
    /\ InProcess(s)
    /\ Cur(s).op = "call_lock"
    /\ TargetSatisfied(Cur(s))
    /\ handed' = [handed EXCEPT ![s] = Append(@, Resolve(s, Cur(s)))]
    /\ pc' = [pc EXCEPT ![s] = @ + 1]
    /\ UNCHANGED <<cfg, program, status, unmappedBam, executed, running, failed, cleanList,
                   finalized, completed, exitCode, pickle, files, deleted, locks>>

\* call_lock takes the lock and starts the command; it waits while the lock is held
CallLockBegin(s) ==
    /\ InProcess(s)
    /\ Cur(s).op = "call_lock"
    /\ ~TargetSatisfied(Cur(s))
    /\ ~Held(Cur(s))
    /\ locks' = locks \cup ({LockKey(Cur(s))} \ {None})
    /\ running' = [running EXCEPT ![s] = Resolve(s, Cur(s))]
    /\ handed' = [handed EXCEPT ![s] = Append(@, Resolve(s, Cur(s)))]
    /\ executed' = [executed EXCEPT ![s] = Append(@, Cur(s).id)]
    /\ UNCHANGED <<cfg, program, pc, status, unmappedBam, failed, cleanList, finalized,
                   completed, exitCode, pickle, files, deleted>>

\* the command exits 0: its outputs are on disk, the lock is released
CallLockSucceed(s) ==
    /\ running[s] # NoStage
    /\ files' = files \cup running[s].outputs \cup ({running[s].target} \ {None})
    /\ locks' = locks \ {LockKey(running[s])}
    /\ running' = [running EXCEPT ![s] = NoStage]
    /\ pc' = [pc EXCEPT ![s] = @ + 1]
    /\ UNCHANGED <<cfg, program, status, unmappedBam, handed, executed, failed, cleanList,
                   finalized, completed, exitCode, pickle, deleted>>

\* the command fails: with nofail the Runner logs and returns, else it ends the run
CallLockFail(s) ==
    /\ running[s] # NoStage
    /\ locks' = locks \ {LockKey(running[s])}
    /\ running' = [running EXCEPT ![s] = NoStage]
    /\ failed' = [failed EXCEPT ![s] = @ \cup {running[s].id}]
    /\ IF running[s].nofail
       THEN /\ pc' = [pc EXCEPT ![s] = @ + 1]
            /\ UNCHANGED <<status, exitCode>>
       ELSE /\ status' = [status EXCEPT ![s] = OnException("HardFailure")]
            /\ exitCode' = [exitCode EXCEPT ![s] =
                               IF OnException("HardFailure") = "returned" THEN @ ELSE 1]
            /\ UNCHANGED pc
    /\ UNCHANGED <<cfg, program, unmappedBam, handed, executed, cleanList, finalized,
                   completed, pickle, files, deleted>>

\* pipe.clean_add(path, conditional=True)
CleanAddStep(s) ==
    /\ InProcess(s)
    /\ Cur(s).op = "clean_add"
    /\ cleanList' = [cleanList EXCEPT ![s] = @ \cup {Cur(s).target}]
    /\ pc' = [pc EXCEPT ![s] = @ + 1]
    /\ UNCHANGED <<cfg, program, status, unmappedBam, handed, executed, running,
                   failed, finalized, completed, exitCode, pickle, files,
                   deleted, locks>>

\* pipe.stop_pipeline(): marks completion and removes the registered
\* conditional files unless dry_run
StopPipeline(s) ==
    /\ InProcess(s)
    /\ Cur(s).op = "stop_pipeline"
    /\ finalized' = [finalized EXCEPT ![s] = @ + 1]
    /\ files' = IF cfg[s].dry_run THEN files ELSE files \ cleanList[s]
    /\ deleted' = IF cfg[s].dry_run THEN deleted ELSE deleted \cup (files \cap cleanList[s])
    /\ pc' = [pc EXCEPT ![s] = @ + 1]
    /\ UNCHANGED <<cfg, program, status, unmappedBam, handed, executed, running,
                   failed, cleanList, completed, exitCode, pickle, locks>>

-----------------------------------------------------------------------------
(* process(): the statements that are not Runner calls *)

\* sample.unmappedBam = sample.unmapped
SetUnmappedBam(s) ==
    /\ InProcess(s)
    /\ Cur(s).op = "set_unmappedBam"
    /\ unmappedBam' = [unmappedBam EXCEPT ![s] = Cur(s).target]
    /\ pc' = [pc EXCEPT ![s] = @ + 1]
    /\ UNCHANGED <<cfg, program, status, handed, executed, running, failed,
                   cleanList, finalized, completed, exitCode, pickle, files,
                   deleted, locks>>

\* tk.linkToTrackHub(...) and os.makedirs(...): done at once, outside the Runner
Direct(s) ==
    /\ InProcess(s)
    /\ Cur(s).op = "direct"
    /\ files' = files \cup {Cur(s).target}
    /\ pc' = [pc EXCEPT ![s] = @ + 1]
    /\ UNCHANGED <<cfg, program, status, unmappedBam, handed, executed, running,
                   failed, cleanList, finalized, completed, exitCode, pickle,
                   deleted, locks>>

\* the return of the sample without ctrl
ReturnEarly(s) ==
    /\ InProcess(s)
    /\ Cur(s).op = "return"
    /\ status' = [status EXCEPT ![s] = "returned"]
    /\ UNCHANGED <<cfg, program, pc, unmappedBam, handed, executed, running, failed,
                   cleanList, finalized, completed, exitCode, pickle, files,
                   deleted, locks>>

\* raise NotImplementedError
RaiseNotImplemented(s) ==
    /\ InProcess(s)
    /\ Cur(s).op = "raise"
    /\ status' = [status EXCEPT ![s] = OnException("NotImplementedError")]
    /\ exitCode' = [exitCode EXCEPT ![s] =
                       IF OnException("NotImplementedError") = "returned" THEN @ ELSE 1]
    /\ UNCHANGED <<cfg, program, pc, unmappedBam, handed, executed, running, failed,
                   cleanList, finalized, completed, pickle, files, deleted, locks>>

\* process() runs off its last statement
ProcessEnd(s) ==
    /\ status[s] = "process"
    /\ running[s] = NoStage
    /\ pc[s] = Len(Program(s)) + 1
    /\ status' = [status EXCEPT ![s] = "returned"]
    /\ UNCHANGED <<cfg, program, pc, unmappedBam, handed, executed, running, failed,
                   cleanList, finalized, completed, exitCode, pickle, files,
                   deleted, locks>>

-----------------------------------------------------------------------------
(* main() after process() *)

\* a main() that removes the pickle whatever args.dry_run is
RemovePickleAlways(s) ==
    /\ status[s] = "returned"
    /\ pickle' = [pickle EXCEPT ![s] = FALSE]
    /\ status' = [status EXCEPT ![s] = "rm_done"]
    /\ UNCHANGED <<cfg, program, pc, unmappedBam, handed, executed, running, failed,
                   cleanList, finalized, completed, exitCode, files, deleted,
                   locks>>

\* if not args.dry_run: os.system("rm %s" % samplePickle)
RemovePickle(s) ==
    /\ status[s] = "returned"
    /\ pickle' = [pickle EXCEPT ![s] = IF cfg[s].dry_run THEN @ ELSE FALSE]
    /\ status' = [status EXCEPT ![s] = "rm_done"]
    /\ UNCHANGED <<cfg, program, pc, unmappedBam, handed, executed, running, failed,
                   cleanList, finalized, completed, exitCode, files, deleted,
                   locks>>

\* sys.exit(0)
Exit(s) ==
    /\ status[s] = "rm_done"
    /\ status' = [status EXCEPT ![s] = "exit"]
    /\ exitCode' = [exitCode EXCEPT ![s] = 0]
    /\ UNCHANGED <<cfg, program, pc, unmappedBam, handed, executed, running, failed,
                   cleanList, finalized, completed, pickle, files, deleted, locks>>

Aborted(s) == status[s] \in {"failed", "notimpl"}

\* the stages of this run that completed: handed and not failed
CompletedNow(s) == Ids(handed[s]) \ failed[s]

\* the aborted run is started again from its pickle: a new process, the same disk
Resume(s) ==
    /\ Aborted(s)
    /\ pickle[s]
    /\ completed' = [completed EXCEPT ![s] = @ \cup CompletedNow(s)]
    /\ pc' = [pc EXCEPT ![s] = 1]
    /\ status' = [status EXCEPT ![s] = "process"]
    /\ unmappedBam' = [unmappedBam EXCEPT ![s] = InitialUnmappedBam(cfg[s])]
    /\ handed' = [handed EXCEPT ![s] = << >>]
    /\ executed' = [executed EXCEPT ![s] = << >>]
    /\ failed' = [failed EXCEPT ![s] = {}]
    /\ cleanList' = [cleanList EXCEPT ![s] = {}]
    /\ finalized' = [finalized EXCEPT ![s] = 0]
    /\ exitCode' = [exitCode EXCEPT ![s] = "none"]
    /\ UNCHANGED <<cfg, program, running, pickle, files, deleted, locks>>

-----------------------------------------------------------------------------
(* Specifications *)

\* sample.broad is read by the macs2 and spp commands only (lines 262, 282):
\* it is varied in SpecPeaks
AllConfigs(name) ==
    {c \in ChipConfigs(name, {"hg19"}) : ~c.broad} \cup QuantConfigs(name, {"hg19"})

\* one run of either workflow, from start to exit
Init == InitOver({1}, AllConfigs)

Next ==
    \/ \E s \in Samples : CallLockSkip(s)
    \/ \E s \in Samples : CallLockBegin(s)
    \/ \E s \in Samples : CallLockSucceed(s)
    \/ \E s \in Samples : CallLockFail(s)
    \/ \E s \in Samples : CleanAddStep(s)
    \/ \E s \in Samples : StopPipeline(s)
    \/ \E s \in Samples : SetUnmappedBam(s)
    \/ \E s \in Samples : Direct(s)
    \/ \E s \in Samples : ReturnEarly(s)
    \/ \E s \in Samples : RaiseNotImplemented(s)
    \/ \E s \in Samples : ProcessEnd(s)
    \/ \E s \in Samples : RemovePickle(s)
    \/ \E s \in Samples : Exit(s)
    \/ \E s \in Samples : Resume(s)

Spec == Init /\ [][Next]_vars

\* ChIP-seq runs that reach peak calling: samples with ctrl, point-source and
\* broad, with either implemented peak caller
PeakConfigs(name) ==
    {c \in ChipConfigs(name, {"hg19"}) :
        /\ c.hasCtrl /\ c.peak_caller \in {"macs2", "spp"}
        /\ ~c.tagmented /\ ~c.isList /\ c.trimmer = "skewer"}

InitPeaks == InitOver({1}, PeakConfigs)

NextPeaks ==
    \/ \E s \in Samples : CallLockSkip(s)
    \/ \E s \in Samples : CallLockBegin(s)
    \/ \E s \in Samples : CallLockSucceed(s)
    \/ \E s \in Samples : CallLockFail(s)
    \/ \E s \in Samples : CleanAddStep(s)
    \/ \E s \in Samples : StopPipeline(s)
    \/ \E s \in Samples : Direct(s)
    \/ \E s \in Samples : ProcessEnd(s)
    \/ \E s \in Samples : RemovePickle(s)
    \/ \E s \in Samples : Exit(s)
    \/ \E s \in Samples : Resume(s)

SpecPeaks == InitPeaks /\ [][NextPeaks]_vars

\* ChIP-seq runs of several samples at once, as the outer scheduler starts them:
\* single-end samples without ctrl, each on one of the genomes
HubConfigs(name) ==
    {c \in ChipConfigs(name, Genomes) :
        /\ ~c.paired /\ ~c.tagmented /\ ~c.histone /\ ~c.broad /\ ~c.hasCtrl /\ ~c.isList
        /\ c.trimmer = "skewer" /\ c.peak_caller = "macs2" /\ c.dry_run}

InitHub == InitOver(1 .. NumSamples, HubConfigs)

NextHub ==
    \/ \E s \in Samples : CallLockBegin(s)
    \/ \E s \in Samples : CallLockSucceed(s)
    \/ \E s \in Samples : CallLockFail(s)
    \/ \E s \in Samples : CleanAddStep(s)
    \/ \E s \in Samples : Direct(s)
    \/ \E s \in Samples : ReturnEarly(s)
    \/ \E s \in Samples : RemovePickle(s)
    \/ \E s \in Samples : Exit(s)

SpecHub == InitHub /\ [][NextHub]_vars

-----------------------------------------------------------------------------
(* Vocabulary of the properties *)

IsChip(s) == cfg[s].workflow = "chipseq"

IsQuant(s) == cfg[s].workflow = "quantseq"

\* process() returned and main() goes on to exit 0
Successful(s) == status[s] \in {"returned", "rm_done", "exit"}

HasHanded(s) == Len(handed[s]) > 0

\* ids of the stages whose command was started in this run
Executed(s) == {executed[s][i] : i \in DOMAIN executed[s]}

\* process() is past a statement op
Passed(s, op) == \E k \in DOMAIN program[s] : k < pc[s] /\ program[s][k].op = op

\* the stages of id handed in this run
HandedAs(s, id) == {i \in DOMAIN handed[s] : handed[s][i].id = id}

LastHanded(s) == handed[s][Len(handed[s])]

\* everything a stage declares to write
Declared(st) == st.outputs \cup ({st.target} \ {None})

\* the stages after the signal/noise QC of the ChIP-seq workflow
PeakStages ==
    {"peaks", "model_plot", "motifs", "motifs_cobinders", "center", "annotate",
     "plot_peaks", "plot_tss", "frip"}

ChipTolerant == {"qc", "plot_peaks", "plot_tss"}

QuantTolerant == {"ercc_quant", "kallisto"}

\* the call_lock statements among the first n statements of process()
CallsUpTo(s, n) ==
    SelectSeq(SubSeq(program[s], 1, n), LAMBDA st : st.op = "call_lock")

\* the statement of process() that hands stage id
StmtIndex(s, id) == CHOOSE k \in DOMAIN program[s] : program[s][k].id = id

\* the stages handed so far are those of the statements passed, in source order
HandedInOrder(s) ==
    LET n == IF running[s] # NoStage \/ status[s] = "failed" THEN pc[s] ELSE pc[s] - 1
        calls == CallsUpTo(s, n)
    IN  /\ Len(handed[s]) = Len(calls)
        /\ \A i \in DOMAIN calls : handed[s][i].id = calls[i].id

-----------------------------------------------------------------------------
(* C1 *)

\* C1: a ChIP-seq run of a sample without ctrl hands no peak-calling, model-plot,
\* motif, centering, annotation, enrichment-plot or FRiP stage to the Runner; once
\* the signal/noise QC has returned the next statement is the return, and a run
\* that returned has the signal/noise QC as its last stage and ends without failure.
C1_NoCtrlEndsAfterQC ==
    \A s \in Samples :
        (IsChip(s) /\ ~cfg[s].hasCtrl) =>
            /\ Ids(handed[s]) \cap PeakStages = {}
            /\ status[s] # "notimpl"
            /\ (InProcess(s) /\ HasHanded(s) /\ LastHanded(s).id = "qc")
                  => Cur(s).op = "return"
            /\ Successful(s) => (HasHanded(s) /\ LastHanded(s).id = "qc")
            /\ status[s] = "exit" => exitCode[s] = 0

C1_Witness ==
    \E s \in Samples :
        /\ IsChip(s) /\ ~cfg[s].hasCtrl /\ cfg[s].peak_caller = "spp"
        /\ status[s] = "exit"
        /\ HasHanded(s)
        /\ LastHanded(s).id = "qc"

-----------------------------------------------------------------------------
(* C2 *)

\* C2: in both workflows, when the command of a stage handed without nofail fails,
\* that stage is the last one handed in the run, stop_pipeline has not been
\* called, and the run has ended with exit status 1, not in process() nor in
\* the successful end of main().
C2_HardFailureAborts ==
    \A s \in Samples :
        \A i \in DOMAIN handed[s] :
            (handed[s][i].id \in failed[s] /\ ~handed[s][i].nofail) =>
                /\ i = Len(handed[s])
                /\ running[s] = NoStage
                /\ pc[s] <= Len(program[s]) /\ Cur(s).id = handed[s][i].id
                /\ finalized[s] = 0
                /\ status[s] = "failed"
                /\ exitCode[s] = 1

C2_Witness ==
    \E s \in Samples :
        /\ IsChip(s)
        /\ status[s] = "failed"
        /\ HasHanded(s)
        /\ LastHanded(s).id = "frip"
        /\ failed[s] = {"frip"}

-----------------------------------------------------------------------------
(* C3 *)

\* C3: a resumed run executes no stage that completed in the run it resumes
\* (stated for every stage, with or without a target).
C3_ResumeSkipsCompleted ==
    \A s \in Samples :
        \A i \in DOMAIN executed[s] : executed[s][i] \notin completed[s]

-----------------------------------------------------------------------------
(* C4 *)

WritingHub(s) == running[s] # NoStage /\ running[s].id = "trackhub"

\* C4: at most one of the runs that share a track-hub file is executing its
\* addTrackToHub command on it.
C4_HubWritesExclusive ==
    \A s, t \in Samples :
        (s # t /\ WritingHub(s) /\ WritingHub(t)) =>
            running[s].outputs \cap running[t].outputs = {}

-----------------------------------------------------------------------------
(* C5 *)

\* C5 as stated: a ChIP-seq run with peak_caller = zinba never ends successfully,
\* whatever the sample.
C5_ZinbaNeverSucceeds ==
    \A s \in Samples :
        (IsChip(s) /\ cfg[s].peak_caller = "zinba") => ~Successful(s)

\* C5 amended: a ChIP-seq run with peak_caller = zinba hands no peak-calling
\* stage to the Runner and leaves no peaks file; for a sample with ctrl the
\* statement after the signal/noise QC is the raise of NotImplementedError, the
\* run never ends successfully and it ends with NotImplementedError unless a
\* stage failed before.
C5_ZinbaWithCtrlNotImplemented ==
    \A s \in Samples :
        (IsChip(s) /\ cfg[s].peak_caller = "zinba") =>
            /\ "peaks" \notin Ids(handed[s])
            /\ P(cfg[s], "peaks") \notin files
            /\ cfg[s].hasCtrl =>
                  /\ ~Successful(s)
                  /\ (InProcess(s) /\ HasHanded(s) /\ LastHanded(s).id = "qc")
                        => Cur(s).op = "raise"
                  /\ (status[s] # "process" /\ failed[s] \subseteq ChipTolerant)
                        => (status[s] = "notimpl" /\ exitCode[s] = 1)

C5_Witness ==
    \E s \in Samples :
        /\ IsChip(s) /\ cfg[s].peak_caller = "zinba" /\ cfg[s].hasCtrl
        /\ status[s] = "notimpl"
        /\ HasHanded(s)
        /\ LastHanded(s).id = "qc"

-----------------------------------------------------------------------------
(* C6 *)

\* C6: in a ChIP-seq run the stages handed with nofail are exactly the
\* signal/noise QC and the two enrichment plots; a failure of one of them does
\* not end the run (the run is past that stage, the later stages are handed in
\* source order), and a failure of any other stage, FRiP included, leaves that
\* stage the last one handed and the run failed.
C6_ChipTolerantStages ==
    \A s \in Samples :
        IsChip(s) =>
            /\ HandedInOrder(s)
            /\ \A i \in DOMAIN handed[s] :
                  LET st == handed[s][i] IN
                  /\ st.nofail <=> st.id \in ChipTolerant
                  /\ (st.id \in failed[s] /\ st.id \in ChipTolerant) =>
                        /\ status[s] = "failed" => i < Len(handed[s])
                        /\ pc[s] > StmtIndex(s, st.id)
                  /\ (st.id \in failed[s] /\ st.id \notin ChipTolerant) =>
                        (status[s] = "failed" /\ i = Len(handed[s]))

C6_Witness ==
    \E s \in Samples :
        /\ IsChip(s)
        /\ failed[s] = ChipTolerant
        /\ "frip" \in Ids(handed[s])
        /\ status[s] = "exit"

-----------------------------------------------------------------------------
(* C7 *)

\* C7: in a Quant-seq run the stages handed with nofail are exactly the ERCC
\* count-based quantification and the kallisto quantification; when only those
\* fail the run does not fail and a run that returned has called stop_pipeline;
\* a failure of any other stage leaves the run failed with stop_pipeline not called.
C7_QuantTolerantStages ==
    \A s \in Samples :
        IsQuant(s) =>
            /\ HandedInOrder(s)
            /\ \A i \in DOMAIN handed[s] :
                  handed[s][i].nofail <=> handed[s][i].id \in QuantTolerant
            /\ failed[s] \subseteq QuantTolerant =>
                  /\ status[s] # "failed"
                  /\ Successful(s) => finalized[s] = 1
            /\ ~(failed[s] \subseteq QuantTolerant) =>
                  (status[s] = "failed" /\ finalized[s] = 0)

C7_Witness ==
    \E s \in Samples :
        /\ IsQuant(s)
        /\ failed[s] = QuantTolerant
        /\ finalized[s] = 1
        /\ status[s] = "exit"

-----------------------------------------------------------------------------
(* C8 *)

\* every stage handed without nofail in process() has been handed and has not failed
RequiredDone(s) ==
    \A i \in DOMAIN program[s] :
        (program[s][i].op = "call_lock" /\ ~program[s][i].nofail) =>
            (program[s][i].id \in Ids(handed[s]) /\ program[s][i].id \notin failed[s])

\* no stage is running and none is left to hand
NoStageLeft(s) ==
    /\ running[s] = NoStage
    /\ \A i \in DOMAIN program[s] : i >= pc[s] => program[s][i].op # "call_lock"

\* C8: a path is deleted only if it was registered with clean_add by a run
\* that is not a dry run, has called stop_pipeline, has no stage running or
\* left to hand, and in which every stage handed without nofail succeeded.
C8_CleanupOnlyAtFinalize ==
    \A f \in deleted :
        \E s \in Samples :
            /\ f \in cleanList[s]
            /\ ~cfg[s].dry_run
            /\ finalized[s] = 1
            /\ NoStageLeft(s)
            /\ RequiredDone(s)
            /\ status[s] # "failed"

C8_Witness ==
    \E s \in Samples :
        /\ ~cfg[s].dry_run
        /\ cfg[s].paired
        /\ P(cfg[s], "trimmed2Unpaired") \in deleted
        /\ P(cfg[s], "mapped") \in deleted
        /\ status[s] = "exit"

-----------------------------------------------------------------------------
(* C9 *)

\* C9: every run whose process() returned has called stop_pipeline exactly once.
C9_SuccessImpliesFinalized ==
    \A s \in Samples : Successful(s) => finalized[s] = 1

-----------------------------------------------------------------------------
(* C10 *)

\* C10 as stated: once a stage is followed by another one in the run, everything
\* it declares to write has been written, whichever stage it is.
C10_EveryOutputWritten ==
    \A s \in Samples :
        \A i \in DOMAIN handed[s] :
            i < Len(handed[s]) => Declared(handed[s][i]) \subseteq files \cup deleted

\* C10 amended: once a stage other than the signal/noise QC, the enrichment
\* plots, the ERCC quantification and the kallisto quantification is followed
\* by another one in the run, everything it declares to write has been written.
C10_RequiredOutputWritten ==
    \A s \in Samples :
        \A i \in DOMAIN handed[s] :
            (i < Len(handed[s])
             /\ handed[s][i].id \notin (IF IsChip(s) THEN ChipTolerant ELSE QuantTolerant))
                => Declared(handed[s][i]) \subseteq files \cup deleted

C10_Witness ==
    \E s \in Samples :
        /\ IsQuant(s)
        /\ HasHanded(s)
        /\ LastHanded(s).id = "kallisto"
        /\ "ercc_quant" \in failed[s]
        /\ P(cfg[s], "quant") \in files
        /\ P(cfg[s], "erccQuant") \notin files

-----------------------------------------------------------------------------
(* C11 *)

\* the state of sample.unmappedBam and of the merge stage in one run
MergeState(s) ==
    LET c == cfg[s]
        merged == P(c, "unmapped")
        raw == InitialUnmappedBam(c)
    IN  /\ ~c.isList =>
              /\ HandedAs(s, "merge") = {}
              /\ unmappedBam[s] = raw
        /\ c.isList =>
              /\ HasHanded(s) => HandedAs(s, "merge") = {1}
              /\ HasHanded(s) => handed[s][1].inputs = <<raw>>
              /\ unmappedBam[s] = (IF Passed(s, "set_unmappedBam") THEN merged ELSE raw)
              /\ "merge" \in completed[s] => "merge" \notin Executed(s)
        /\ \A i \in DOMAIN handed[s] :
              handed[s][i].id \in {"fastqc", "bam2fastq"} =>
                  handed[s][i].inputs = << IF c.isList THEN merged ELSE raw >>
        /\ \A i \in DOMAIN handed[s] :
              handed[s][i].id # "merge" =>
                  \A k \in DOMAIN handed[s][i].inputs :
                      handed[s][i].inputs[k] # P(c, "rawBamList")

\* sample.unmappedBam changes only from the list to the merged path, in process()
MergeMutation(s) ==
    unmappedBam'[s] # unmappedBam[s] =>
        \/ /\ status[s] = "process" /\ status'[s] = "process"
           /\ cfg[s].isList
           /\ unmappedBam[s] = InitialUnmappedBam(cfg[s])
           /\ unmappedBam'[s] = P(cfg[s], "unmapped")
        \/ /\ Aborted(s) /\ status'[s] = "process" /\ pc'[s] = 1

\* C11: in both workflows the merge stage is handed if and only if
\* sample.unmappedBam is a list, as the first stage and once, reading the list;
\* after it sample.unmappedBam is the merged path, which the quality report and
\* the format conversion read, and no later stage reads the list; within a run
\* sample.unmappedBam changes at most once, from the list to the merged path; a
\* resumed run does not execute a merge that completed before.
C11_MergeOnce ==
    /\ [](\A s \in Samples : MergeState(s))
    /\ [][\A s \in Samples : MergeMutation(s)]_vars

C11_Witness ==
    \E s \in Samples :
        /\ IsQuant(s) /\ cfg[s].isList
        /\ "merge" \in completed[s]
        /\ "merge" \notin Executed(s)
        /\ HandedAs(s, "bam2fastq") # {}
        /\ unmappedBam[s] = P(cfg[s], "unmapped")

-----------------------------------------------------------------------------
(* C12 *)

TrimSlots(c) ==
    {P(c, "trimmed"), P(c, "trimmed1"), P(c, "trimmed2"),
     P(c, "trimmed1Unpaired"), P(c, "trimmed2Unpaired")}

UnpairedSlots(c) == {P(c, "trimmed1Unpaired"), P(c, "trimmed2Unpaired")}

\* the trimmed outputs the selected trimmer is to write
TrimOutputs(c) ==
    IF ~c.paired THEN {P(c, "trimmed")}
    ELSE IF c.trimmer = "skewer" THEN {P(c, "trimmed1"), P(c, "trimmed2")}
    ELSE TrimSlots(c) \ {P(c, "trimmed")}

\* C12: in a ChIP-seq run at most one trim command is handed, and exactly one
\* once the alignment is handed; it is the command of the selected trimmer, its
\* outputs are 1 path for a single-end sample, 2 for skewer and 4 for
\* trimmomatic on a paired sample, its checkpoint is the primary trimmed output;
\* the trimmed paths registered for cleanup are among these outputs and are
\* all of them once the alignment is handed; with skewer no unpaired trimmed
\* file is passed, registered or written, with trimmomatic on a paired sample
\* both are written.
C12_ChipTrimOutputs ==
    \A s \in Samples :
        IsChip(s) =>
            LET c == cfg[s] IN
            /\ Cardinality(HandedAs(s, "trim")) <= 1
            /\ HandedAs(s, "map") # {} => Cardinality(HandedAs(s, "trim")) = 1
            /\ \A i \in HandedAs(s, "trim") :
                  /\ handed[s][i].tool = c.trimmer
                  /\ handed[s][i].outputs = TrimOutputs(c)
                  /\ Cardinality(handed[s][i].outputs) =
                        (IF ~c.paired THEN 1 ELSE IF c.trimmer = "skewer" THEN 2 ELSE 4)
                  /\ handed[s][i].target =
                        (IF c.paired THEN P(c, "trimmed1") ELSE P(c, "trimmed"))
            /\ cleanList[s] \cap TrimSlots(c) \subseteq TrimOutputs(c)
            /\ HandedAs(s, "map") # {} =>
                  /\ cleanList[s] \cap TrimSlots(c) = TrimOutputs(c)
                  /\ (files \cup deleted) \cap TrimSlots(c) = TrimOutputs(c)
            /\ c.trimmer = "skewer" =>
                  (files \cup deleted \cup cleanList[s]) \cap UnpairedSlots(c) = {}

C12_Witness ==
    \E s \in Samples :
        /\ IsChip(s) /\ cfg[s].paired /\ cfg[s].trimmer = "skewer"
        /\ HandedAs(s, "map") # {}
        /\ P(cfg[s], "trimmed2") \in cleanList[s] \cap files
        /\ P(cfg[s], "trimmed2Unpaired") \notin files

-----------------------------------------------------------------------------
(* C13 *)

FastqSlots(c) == {P(c, "fastq"), P(c, "fastq1"), P(c, "fastq2"), P(c, "fastqUnpaired")}

\* the fastq slots the format conversion is to fill
FastqOutputs(c) ==
    IF c.paired THEN {P(c, "fastq1"), P(c, "fastq2"), P(c, "fastqUnpaired")}
                ELSE {P(c, "fastq")}

\* C13: in both workflows the format conversion is handed with the outputs
\* fastq1, fastq2 and fastqUnpaired for a paired sample and with the output
\* fastq for a single-end sample, and with checkpoint fastq1 or fastq; the
\* fastq paths registered for cleanup are among these, and once the trim
\* stage is handed the fastq paths registered, and those written, are exactly these.
C13_FastqSlots ==
    \A s \in Samples :
        LET c == cfg[s] IN
        /\ \A i \in HandedAs(s, "bam2fastq") :
              /\ handed[s][i].outputs = FastqOutputs(c)
              /\ handed[s][i].target = (IF c.paired THEN P(c, "fastq1") ELSE P(c, "fastq"))
        /\ cleanList[s] \cap FastqSlots(c) \subseteq FastqOutputs(c)
        /\ HandedAs(s, "trim") # {} =>
              /\ Cardinality(HandedAs(s, "bam2fastq")) = 1
              /\ cleanList[s] \cap FastqSlots(c) = FastqOutputs(c)
              /\ (files \cup deleted) \cap FastqSlots(c) = FastqOutputs(c)

C13_Witness ==
    \E s \in Samples :
        /\ IsQuant(s) /\ cfg[s].paired
        /\ HandedAs(s, "trim") # {}
        /\ FastqOutputs(cfg[s]) \subseteq cleanList[s] \cap files
        /\ P(cfg[s], "fastq") \notin files \cup cleanList[s]

-----------------------------------------------------------------------------
(* C14 *)

\* the paths a handed stage names: inputs, outputs, checkpoint
Referenced(st) ==
    {st.inputs[k] : k \in DOMAIN st.inputs} \cup st.outputs \cup ({st.target} \ {None})

ShiftedSlots(c) == {P(c, "filteredshifted"), P(c, "filteredshifted.bai")}

\* C14: in a ChIP-seq run of a sample that is not tagmented no stage handed
\* names the shifted file or its index, no shift stage is handed and neither
\* file is written; for a tagmented sample the shift stage is handed at most
\* once, right after the quality filter, and once the first index stage is
\* handed it has been handed exactly once and before it, and once the track
\* stage is handed the shifted file has been handed to the index stage.
C14_ShiftedOnlyIfTagmented ==
    \A s \in Samples :
        IsChip(s) =>
            LET c == cfg[s] IN
            /\ ~c.tagmented =>
                  /\ \A i \in DOMAIN handed[s] :
                        Referenced(handed[s][i]) \cap ShiftedSlots(c) = {}
                  /\ HandedAs(s, "shift") = {} /\ HandedAs(s, "index_shifted") = {}
                  /\ (files \cup deleted \cup cleanList[s]) \cap ShiftedSlots(c) = {}
            /\ c.tagmented =>
                  /\ Cardinality(HandedAs(s, "shift")) <= 1
                  /\ \A i \in HandedAs(s, "shift") :
                        /\ i > 1 /\ handed[s][i - 1].id = "filter"
                        /\ handed[s][i].inputs = <<P(c, "filtered")>>
                        /\ handed[s][i].target = P(c, "filteredshifted")
                  /\ \A i \in HandedAs(s, "index_mapped") :
                        handed[s][i - 1].id = "shift"
                  /\ \A i \in HandedAs(s, "bigwig") :
                        /\ handed[s][i - 1].id = "index_shifted"
                        /\ handed[s][i - 1].inputs = <<P(c, "filteredshifted")>>
                        /\ Cardinality(HandedAs(s, "index_shifted")) = 1

C14_Witness ==
    \E s \in Samples :
        /\ IsChip(s) /\ ~cfg[s].tagmented /\ cfg[s].hasCtrl
        /\ HandedAs(s, "frip") # {}
        /\ status[s] = "exit"

-----------------------------------------------------------------------------
(* C15 *)

\* the number a numeric argument of the motif searches denotes
NumberOf(str) ==
    CASE str = "8" -> 8 [] str = "12" -> 12 [] str = "20" -> 20
      [] str = "50" -> 50 [] str = "200" -> 200 [] str = "1000" -> 1000

\* the value of keyword argument key of a handed stage
Opt(st, key) == (CHOOSE o \in st.opts : o[1] = key)[2]

MotifIds == {"motifs", "motifs_cobinders"}

\* C15: in a ChIP-seq run no motif search is handed twice; for a histone
\* sample no co-binder search is handed and, once motif centering is handed,
\* exactly one motif search has been; for a sample that is not a histone,
\* the co-binder search is handed right after the self-motif search, with a
\* checkpoint other than the self-motif search's, a strictly larger window
\* size and a strictly higher motif count, and once motif centering is handed
\* exactly the two searches have been handed.
C15_MotifSearches ==
    \A s \in Samples :
        IsChip(s) =>
            LET c == cfg[s]
                searches == {i \in DOMAIN handed[s] : handed[s][i].tool = "homerFindMotifs"}
            IN
            /\ \A id \in MotifIds : Cardinality(HandedAs(s, id)) <= 1
            /\ \A i \in searches : handed[s][i].id \in MotifIds
            /\ c.histone =>
                  /\ HandedAs(s, "motifs_cobinders") = {}
                  /\ HandedAs(s, "center") # {} => Cardinality(searches) = 1
            /\ ~c.histone =>
                  /\ HandedAs(s, "center") # {} => Cardinality(searches) = 2
                  /\ \A i \in HandedAs(s, "motifs_cobinders") :
                        /\ i > 1 /\ handed[s][i - 1].id = "motifs"
                        /\ handed[s][i].target # None
                        /\ handed[s][i - 1].target # None
                        /\ handed[s][i].target # handed[s][i - 1].target
                        /\ NumberOf(Opt(handed[s][i], "size"))
                              > NumberOf(Opt(handed[s][i - 1], "size"))
                        /\ NumberOf(Opt(handed[s][i], "n_motifs"))
                              > NumberOf(Opt(handed[s][i - 1], "n_motifs"))

C15_Witness ==
    \E s \in Samples :
        /\ IsChip(s) /\ ~cfg[s].histone
        /\ HandedAs(s, "center") # {}
        /\ {"motifs", "motifs_cobinders"} \subseteq Executed(s)

-----------------------------------------------------------------------------
(* C16 *)

\* the stages process() hands to the Runner for run input c, in source order
CallsOf(c) == SelectSeq(Process(c), LAMBDA st : st.op = "call_lock")

\* a handed stage is the stage st of process(), sample.unmappedBam read at the call
SameStage(h, st, c) ==
    /\ h.id = st.id /\ h.tool = st.tool /\ h.cmd = st.cmd /\ h.opts = st.opts
    /\ h.outputs = st.outputs /\ h.target = st.target /\ h.lock = st.lock
    /\ h.nofail = st.nofail
    /\ (h.inputs = st.inputs \/ st.inputs = <<P(c, "unmappedBam")>>)

\* the path pieces of a command text
PathsIn(cmd) == {cmd[k] : k \in DOMAIN cmd} \ {Lit(str) : str \in {"PE", "SE"}}

\* C16: the stages a Quant-seq run hands to the Runner are, one by one, those
\* process() hands for the same run input with the other trimmer (same command,
\* arguments, outputs, checkpoint, lock name and nofail); the trim stage handed
\* is the trimmomatic command, in its PE form with the four trimmed outputs for
\* a paired sample and in its SE form with the one output otherwise.
C16_QuantIgnoresTrimmer ==
    \A s \in Samples :
        IsQuant(s) =>
            LET c == cfg[s] IN
            /\ \A t \in Trimmers :
                  LET calls == CallsOf([c EXCEPT !.trimmer = t]) IN
                  /\ Len(handed[s]) <= Len(calls)
                  /\ \A i \in DOMAIN handed[s] : SameStage(handed[s][i], calls[i], c)
            /\ \A i \in HandedAs(s, "trim") :
                  LET st == handed[s][i] IN
                  /\ st.tool = "trimmomatic"
                  /\ Len(st.cmd) > 1
                  /\ st.cmd[1] = Lit("java -Xmx4g -jar trimmomatic-0.32.jar")
                  /\ st.cmd[2] = Lit(IF c.paired THEN "PE" ELSE "SE")
                  /\ st.outputs = (IF c.paired THEN TrimSlots(c) \ {P(c, "trimmed")}
                                               ELSE {P(c, "trimmed")})
                  /\ st.outputs \subseteq PathsIn(st.cmd)
                  /\ PathsIn(st.cmd) \cap TrimSlots(c) = st.outputs

C16_Witness ==
    \E s \in Samples :
        /\ IsQuant(s) /\ cfg[s].trimmer = "skewer" /\ cfg[s].paired
        /\ "trim" \in Executed(s)
        /\ HandedAs(s, "kallisto") # {}
        /\ UnpairedSlots(cfg[s]) \subseteq files \cup deleted

-----------------------------------------------------------------------------
(* C17 *)

\* C17: in both workflows the pickle of the run is absent exactly when
\* process() returned, main() is past its `rm` statement and dry_run is false;
\* it is present while process() runs, after a failed stage, after
\* NotImplementedError and in every state of a dry run, and a run that ended
\* in a failure can be started again from it.
C17_PickleRemovedOnSuccess ==
    \A s \in Samples :
        /\ ~pickle[s] <=> (status[s] \in {"rm_done", "exit"} /\ ~cfg[s].dry_run)
        /\ status[s] \in {"process", "failed", "notimpl"} => pickle[s]
        /\ cfg[s].dry_run => pickle[s]
        /\ Aborted(s) => ENABLED Resume(s)

C17_Witness ==
    \E s \in Samples :
        /\ IsChip(s) /\ ~cfg[s].dry_run /\ ~cfg[s].hasCtrl
        /\ status[s] = "exit"
        /\ ~pickle[s]

-----------------------------------------------------------------------------
(* C18 *)

\* the stages of process(), other than stage id, that declare to write path p
Producers(s, p, id) ==
    {k \in DOMAIN program[s] :
        /\ program[s][k].op = "call_lock"
        /\ program[s][k].id # id
        /\ p \in Declared(program[s][k])}

\* stage id was handed before position i of the run and its command did not fail
DoneBefore(s, id, i) ==
    /\ \E j \in DOMAIN handed[s] : j < i /\ handed[s][j].id = id
    /\ id \notin failed[s]

\* C18: in every run of either workflow, when a stage is handed (it is the
\* last stage handed), for every input of it that another stage of the run
\* declares to write, that stage was handed earlier in the run, has not
\* failed, and the input has been written.
C18_ProducersFirst ==
    \A s \in Samples :
        HasHanded(s) =>
            LET i == Len(handed[s])
                st == handed[s][i]
            IN  \A k \in DOMAIN st.inputs :
                    \A n \in Producers(s, st.inputs[k], st.id) :
                        /\ DoneBefore(s, program[s][n].id, i)
                        /\ st.inputs[k] \in files \cup deleted

C18_Witness ==
    \E s \in Samples :
        /\ IsQuant(s) /\ cfg[s].isList
        /\ {"merge", "sort_index", "quant"} \subseteq Executed(s)
        /\ Producers(s, P(cfg[s], "filtered"), "quant") # {}
        /\ status[s] = "exit"

-----------------------------------------------------------------------------
(* C19 *)

\* C19: every stage handed to the Runner carries a key, its checkpoint or its
\* lock name, and no two stages handed in a run carry the same key.
C19_EveryStageKeyed ==
    \A s \in Samples :
        \A i \in DOMAIN handed[s] :
            /\ LockKey(handed[s][i]) # None
            /\ \A j \in DOMAIN handed[s] :
                  j # i => LockKey(handed[s][j]) # LockKey(handed[s][i])

-----------------------------------------------------------------------------
(* C20 *)

PeakTools == {"macs2CallPeaks", "sppCallPeaks"}

\* C20: in a ChIP-seq run of a sample with ctrl and peak_caller macs2 or spp,
\* at most one peak-calling command is handed, and exactly one once motif
\* discovery is handed; it is the command of the selected caller, with
\* sample.filtered as treatment and sample.ctrl.filtered as control, with
\* broad = True exactly when sample.broad is set, and with checkpoint
\* sample.peaks; with macs2 the model plot is handed right after it and motif
\* discovery right after the model plot, with spp no model plot is handed and
\* motif discovery comes right after peak calling.
C20_PeakCalling ==
    \A s \in Samples :
        (IsChip(s) /\ cfg[s].hasCtrl /\ cfg[s].peak_caller \in {"macs2", "spp"}) =>
            LET c == cfg[s]
                macs2 == c.peak_caller = "macs2"
            IN
            /\ Cardinality({i \in DOMAIN handed[s] : handed[s][i].tool \in PeakTools}) <= 1
            /\ \A i \in DOMAIN handed[s] :
                  handed[s][i].tool \in PeakTools <=> handed[s][i].id = "peaks"
            /\ \A i \in HandedAs(s, "peaks") :
                  LET st == handed[s][i] IN
                  /\ st.tool = (IF macs2 THEN "macs2CallPeaks" ELSE "sppCallPeaks")
                  /\ st.inputs = <<P(c, "filtered"), P(c, "ctrl.filtered")>>
                  /\ Opt(st, "broad") = "True" <=> c.broad
                  /\ Opt(st, "broad") \in {"True", "False"}
                  /\ st.target = P(c, "peaks")
                  /\ i > 1 /\ handed[s][i - 1].id = "qc"
            /\ Cardinality(HandedAs(s, "model_plot")) <= 1
            /\ ~macs2 => HandedAs(s, "model_plot") = {}
            /\ \A i \in HandedAs(s, "model_plot") : handed[s][i - 1].id = "peaks"
            /\ \A i \in HandedAs(s, "motifs") :
                  /\ handed[s][i - 1].id = (IF macs2 THEN "model_plot" ELSE "peaks")
                  /\ Cardinality(HandedAs(s, "peaks")) = 1

C20_Witness ==
    \E s \in Samples :
        /\ IsChip(s) /\ cfg[s].hasCtrl /\ cfg[s].peak_caller = "spp" /\ cfg[s].broad
        /\ "peaks" \in Executed(s)
        /\ HandedAs(s, "motifs") # {}
        /\ P(cfg[s], "peaks") \in files

-----------------------------------------------------------------------------
(* C21 *)

\* C21: in a ChIP-seq run motif centering and motif annotation are each handed
\* at most once; centering is handed right after the last motif search
\* (the one search of a histone sample, the co-binder search otherwise) and
\* annotation right after centering, whichever peak caller ran; both read
\* sample.peaks and the motif1.motif of the first motif search, in that
\* order, and not the co-binder search's result; once the peak-centered plot
\* is handed, annotation is the stage before it and both have been handed
\* exactly once.
C21_CenterAndAnnotate ==
    \A s \in Samples :
        IsChip(s) =>
            LET c == cfg[s]
                motif == <<P(c, "peaks"), P(c, "motif1.motif")>>
            IN
            /\ Cardinality(HandedAs(s, "center")) <= 1
            /\ Cardinality(HandedAs(s, "annotate")) <= 1
            /\ \A i \in HandedAs(s, "motifs") :
                  handed[s][i].target = P(c, "motif1.motif")
            /\ \A i \in HandedAs(s, "center") :
                  /\ handed[s][i - 1].id = (IF c.histone THEN "motifs" ELSE "motifs_cobinders")
                  /\ handed[s][i].inputs = motif
                  /\ c.peak_caller \in {"macs2", "spp"}
                  /\ "peaks" \in Ids(handed[s]) \ failed[s]
            /\ \A i \in HandedAs(s, "annotate") :
                  /\ handed[s][i - 1].id = "center"
                  /\ handed[s][i].inputs = motif
            /\ \A i \in HandedAs(s, "plot_peaks") :
                  /\ handed[s][i - 1].id = "annotate"
                  /\ Cardinality(HandedAs(s, "center")) = 1
                  /\ Cardinality(HandedAs(s, "annotate")) = 1
            /\ \A i \in HandedAs(s, "center") \cup HandedAs(s, "annotate") :
                  \A k \in DOMAIN handed[s][i].inputs :
                      handed[s][i].inputs[k] # P(c, "cobinders.motif1.motif")

C21_Witness ==
    \E s \in Samples :
        /\ IsChip(s) /\ cfg[s].peak_caller = "spp" /\ ~cfg[s].histone
        /\ {"motifs_cobinders", "center", "annotate"} \subseteq Executed(s)
        /\ HandedAs(s, "plot_peaks") # {}
        /\ P(cfg[s], "peaksMotifAnnotated") \in files

-----------------------------------------------------------------------------
(* C22 *)

\* the stages that read the trimmed reads
TrimmedReaders == {"map", "ercc_map", "kallisto"}

ErccStages == {"ercc_filter", "ercc_sort_index", "ercc_quant"}

PrimaryStages == {"filter", "sort_index", "quant"}

ErccFiles(c) == {P(c, "erccMapped"), P(c, "erccFiltered"), P(c, "erccQuant")}

PrimaryFiles(c) == {P(c, "mapped"), P(c, "filtered"), P(c, "quant")}

\* C22: in a Quant-seq run of a paired sample every stage that reads the
\* trimmed reads (primary alignment, ERCC alignment, kallisto) is handed
\* trimmed1 as its first input and trimmed2 as its second; the ERCC filter,
\* sort+index and quantification name ERCC files only and the primary ones
\* primary files only.
C22_BothMatesToEveryReader ==
    \A s \in Samples :
        IsQuant(s) =>
            LET c == cfg[s] IN
            /\ \A i \in DOMAIN handed[s] :
                  (c.paired /\ handed[s][i].id \in TrimmedReaders) =>
                      handed[s][i].inputs = <<P(c, "trimmed1"), P(c, "trimmed2")>>
            /\ \A i \in DOMAIN handed[s] :
                  /\ handed[s][i].id \in ErccStages =>
                        Referenced(handed[s][i]) \subseteq ErccFiles(c)
                  /\ handed[s][i].id \in PrimaryStages =>
                        Referenced(handed[s][i]) \subseteq PrimaryFiles(c)

-----------------------------------------------------------------------------
(* C23 *)

Tolerant(s) == IF IsChip(s) THEN ChipTolerant ELSE QuantTolerant

\* one step of run s
Step(s) ==
    \/ CallLockSkip(s) \/ CallLockBegin(s) \/ CallLockSucceed(s) \/ CallLockFail(s)
    \/ CleanAddStep(s) \/ StopPipeline(s) \/ SetUnmappedBam(s) \/ Direct(s)
    \/ ReturnEarly(s) \/ RaiseNotImplemented(s) \/ ProcessEnd(s)
    \/ RemovePickle(s) \/ Exit(s)

\* C23: in both workflows, when a stage is handed none of its inputs is
\* declared by a stage handed with nofail; a run in which no stage has failed
\* other than the signal/noise QC, the enrichment plots, the ERCC
\* quantification and kallisto has not ended in a failure and can always take
\* its next step until it exits with status 0, peak calling with zinba, which
\* raises NotImplementedError, counting as a failed required stage.
C23_TolerantOutputsTerminal ==
    \A s \in Samples :
        /\ HasHanded(s) =>
              LET st == LastHanded(s) IN
              \A k \in DOMAIN st.inputs :
                  \A n \in Producers(s, st.inputs[k], st.id) : ~program[s][n].nofail
        /\ (failed[s] \subseteq Tolerant(s) /\ status[s] # "notimpl") =>
              /\ status[s] # "failed"
              /\ status[s] = "exit" => exitCode[s] = 0
              /\ status[s] # "exit" => ENABLED Step(s)
        /\ status[s] = "notimpl" => (cfg[s].peak_caller = "zinba" /\ Cur(s).op = "raise")
        /\ status[s] = "failed" => ~(failed[s] \subseteq Tolerant(s))

C23_Witness ==
    \E s \in Samples :
        /\ IsChip(s) /\ cfg[s].hasCtrl
        /\ failed[s] = ChipTolerant
        /\ P(cfg[s], "frip") \in files
        /\ P(cfg[s], "qcPlot") \notin files
        /\ finalized[s] = 1
        /\ status[s] = "exit"

====
